---- MODULE Spec2Model ----
(***************************************************************************)
(* A model of the three programs of the repository:                        *)
(*   bilk-poker-bankroll-tracker/convert_pokercraft_to_bink.py             *)
(*   asynchronous/example-2.py   (fan-out and join over two wash tasks)    *)
(*   asynchronous/example-3.py   (coroutine / task handle / result)        *)
(* One run executes one of the programs; `prog` says which.                *)
(*                                                                         *)
(* Units.  Currency amounts are integers counted in thousandths (mills),   *)
(* so that round(x, 2) is a real operation; durations are hundredths of    *)
(* an hour.  A text is a sequence of tokens, the pieces the code obtains   *)
(* by splitting on its separator (":" for a duration, "/" for stakes); a   *)
(* token is either the rendering of a number or a word that float()/int()  *)
(* reject.  The empty text is << >>.                                       *)
(***************************************************************************)
EXTENDS Integers, Sequences, FiniteSets, TLC

VARIABLES
    prog,        \* which program this run executes
    \* ---- converter ----
    caller,      \* "driver" (the __main__ block) or "library" (convert called directly)
    year,        \* the year argument (NoYear for None)
    default_buy_in, \* [given |-> BOOLEAN, amt |-> mills]; given = FALSE is None
    html_file,   \* [exists |-> BOOLEAN, doc |-> sequence of <tr> elements]
    csvBefore,   \* the output file as it was before the run
    csvFile,     \* the output file now: [exists |-> BOOLEAN, lines |-> sequence]
    csvOpened,   \* TRUE once open(output_csv, "w") has been executed
    pc,          \* position inside convert / the driver
    rows,        \* soup.find_all("tr", {"mat-row": True})
    idx,         \* number of rows scanned so far
    sessions,    \* the accumulator
    written,     \* number of sessions already passed to writer.writerow
    result,      \* the list convert returned
    exc,         \* the exception convert raised, "none" otherwise
    handler,     \* the except branch of the driver that ran
    exitStatus,  \* the process exit status of the driver, NotExited while running
    \* ---- asyncio demos ----
    clock,       \* logical time of the event loop
    ready,       \* the loop's FIFO of callbacks ready to run (task ids)
    timers,      \* scheduled call_later handles: [task, when]
    running,     \* the task whose step is executing, "none" between steps
    tstate,      \* per task: "absent", "coroutine", "scheduled", "sleeping", "waiting", "done"
    tpc,         \* per task: index of its next statement
    waitingOn,   \* per task: the tasks whose completion it is suspended on
    tresult,     \* per task: the value it returned (<< >> before)
    awaited,     \* the value `result = await task` bound in main (<< >> before)
    log,         \* the log lines emitted, in order
    script,      \* position of the __main__ block of the demo
    startTime,   \* start = time.time()
    endTime      \* end = time.time()

convVars == <<caller, year, default_buy_in, html_file, csvBefore, csvFile, csvOpened,
              pc, rows, idx, sessions, written, result, exc, handler, exitStatus>>
demoVars == <<clock, ready, timers, running, tstate, tpc, waitingOn, tresult,
              awaited, log, script, startTime, endTime>>
vars == <<prog, convVars, demoVars>>

(***************************************************************************)
(* Bounds of the model.                                                    *)
(***************************************************************************)
MaxRows == 2          \* longest input document, in <tr> elements

(***************************************************************************)
(* Texts and numbers.                                                      *)
(***************************************************************************)
\* sym: the token carries a "$" sign or blanks around it
Num(n) == [num |-> TRUE, val |-> n, word |-> "", sym |-> FALSE]
Dollar(n) == [num |-> TRUE, val |-> n, word |-> "", sym |-> TRUE]
Word(w) == [num |-> FALSE, val |-> 0, word |-> w, sym |-> FALSE]

Abs(x) == IF x < 0 THEN -x ELSE x

\* round(n / d) to the nearest integer for d > 0, as Python's round does it.  On an
\* exact tie Python decides by the binary value of the float; the texts of the
\* model produce no tie, where this operator takes the even neighbour.
RoundDiv(n, d) ==
    LET a == Abs(n)
        q == a \div d
        r == a % d
        up == IF 2 * r > d \/ (2 * r = d /\ q % 2 = 1) THEN q + 1 ELSE q
    IN  IF n < 0 THEN -up ELSE up

\* round(x, 2) of an amount in mills: the nearest multiple of 10 mills
Round2(x) == 10 * RoundDiv(x, 10)

\* dict.get(key, default) and dict[key] = value on a session record
Get(d, k, dflt) == IF k \in DOMAIN d THEN d[k] ELSE dflt
Put(d, k, v) == [x \in (DOMAIN d) \cup {k} |-> IF x = k THEN v ELSE d[x]]
EmptyDict == [x \in {} |-> 0]

(***************************************************************************)
(* Parsing helpers.  A helper that can raise returns [exc, val]: exc is    *)
(* the exception type, "none" when it returned val.                        *)
(***************************************************************************)
Ok(v) == [exc |-> "none", val |-> v]
Raise(e) == [exc |-> e, val |-> 0]

\* int(s) / float(s) accept exactly the renderings of numbers
IsNumber(tok) == tok.num

\* parse_duration: parts = split(":"); int(parts[0]), int(parts[1]), int(parts[2]) if any.
\* "".split(":") is [""], whose int() is a ValueError.
parse_duration(duration_str) ==
    LET parts == duration_str
    IN  IF Len(parts) = 0 \/ ~IsNumber(parts[1]) THEN Raise("ValueError")
        ELSE IF Len(parts) < 2 THEN Raise("IndexError")
        ELSE IF ~IsNumber(parts[2]) THEN Raise("ValueError")
        ELSE IF Len(parts) > 2 /\ ~IsNumber(parts[3]) THEN Raise("ValueError")
        ELSE LET hours == parts[1].val
                 minutes == parts[2].val
                 seconds == IF Len(parts) > 2 THEN parts[3].val ELSE 0
             IN  Ok(RoundDiv(hours * 3600 + minutes * 60 + seconds, 36))

\* parse_winloss: strip "$" and ",", then float() of the whole remainder
parse_winloss(winloss_str) ==
    IF Len(winloss_str) = 1 /\ IsNumber(winloss_str[1])
    THEN Ok(winloss_str[1].val)
    ELSE Raise("ValueError")

\* parse_stakes: remove "$" and spaces; the slash structure is kept, nothing is parsed
StripDollar(tok) == [tok EXCEPT !.sym = FALSE]
parse_stakes(stakes_str) == [i \in 1..Len(stakes_str) |-> StripDollar(stakes_str[i])]

\* datetime.now().year
CurrentYear == 2026
NoYear == 0

MonthNumber(w) ==
    CASE w = "Jan" -> 1 [] w = "Feb" -> 2 [] w = "Mar" -> 3 [] w = "Apr" -> 4
      [] w = "May" -> 5 [] w = "Jun" -> 6 [] w = "Jul" -> 7 [] w = "Aug" -> 8
      [] w = "Sep" -> 9 [] w = "Oct" -> 10 [] w = "Nov" -> 11 [] w = "Dec" -> 12
      [] OTHER -> 0

IsLeap(y) == (y % 4 = 0 /\ y % 100 # 0) \/ y % 400 = 0

DaysIn(m, y) ==
    IF m = 2 THEN (IF IsLeap(y) THEN 29 ELSE 28)
    ELSE IF m \in {4, 6, 9, 11} THEN 30 ELSE 31

\* datetime.strptime(f"{date_part} {year}", "%b %d %Y").strftime("%m/%d/%Y"):
\* a date is <<month, day, year>>; anything that is not "<Mon> <Day>" naming a day
\* of that year is a ValueError
strptime(date_part, y) ==
    LET wellFormed == /\ Len(date_part) = 2
                      /\ ~date_part[1].num
                      /\ date_part[2].num
        m == IF wellFormed THEN MonthNumber(date_part[1].word) ELSE 0
        d == IF wellFormed THEN date_part[2].val ELSE 0
    IN  IF m # 0 /\ d >= 1 /\ d <= DaysIn(m, y) THEN Ok(<<m, d, y>>) ELSE Raise("ValueError")

\* parse_date with an except clause that lets the exception through
parse_date_uncaught(date_str, yr) ==
    strptime(date_str, IF yr = NoYear THEN CurrentYear ELSE yr)

\* parse_date: the part of date_str before the first comma, with the year; every
\* exception is caught, printed and turned into "" (the empty text << >>)
parse_date(date_str, yr) ==
    LET r == strptime(date_str, IF yr = NoYear THEN CurrentYear ELSE yr)
    IN  IF r.exc # "none" THEN Ok(<< >>) ELSE r

\* parse_game_type: substring tests on the upper-cased table name, in this order
HasWord(text, ws) == \E i \in 1..Len(text) : ~text[i].num /\ text[i].word \in ws
parse_game_type(table_name) ==
    IF HasWord(table_name, {"NLH", "HOLDEM", "HOLD'EM"}) THEN "Texas Hold'em"
    ELSE IF HasWord(table_name, {"PLO", "OMAHA"}) THEN "Omaha"
    ELSE "Texas Hold'em"

\* estimate_buyin_from_stakes: parts = split("/"); float(parts[1]) * 100, rounded
estimate_buyin_from_stakes(stakes_str) ==
    LET parts == stakes_str
    IN  IF Len(parts) < 2 THEN Raise("IndexError")
        ELSE IF ~IsNumber(parts[2]) THEN Raise("ValueError")
        ELSE Ok(Round2(parts[2].val * 100))

(***************************************************************************)
(* The input document.  A <td> is [matcell, col, span, txt]: whether it    *)
(* carries the mat-cell attribute, its column class, whether it holds a    *)
(* span.mat-tooltip-trigger, and its text.  A <tr> is [matrow, cells].     *)
(***************************************************************************)
Td(col, txt) == [matcell |-> TRUE, col |-> col, span |-> TRUE, txt |-> txt]
Tr(cells) == [matrow |-> TRUE, cells |-> cells]

GoodStart == Td("mat-column-SessionStart", <<Word("Nov"), Num(10)>>)
LeapStart == Td("mat-column-SessionStart", <<Word("Feb"), Num(29)>>)
BadStart == Td("mat-column-SessionStart", <<Word("yesterday")>>)
NoSpanStart == [GoodStart EXCEPT !.span = FALSE]
GoodStakes == Td("mat-column-Stakes", <<Dollar(50), Dollar(100)>>)
HighStakes == Td("mat-column-Stakes", <<Num(250), Num(500)>>)
NoSlashStakes == Td("mat-column-Stakes", <<Dollar(50)>>)
WordStakes == Td("mat-column-Stakes", <<Dollar(50), Word("BB")>>)
NlhTable == Td("mat-column-Table", <<Word("NLH"), Word("6-MAX")>>)
PloTable == Td("mat-column-Table", <<Word("PLO"), Word("HOLDEM")>>)
Hands == Td("mat-column-Hands", <<Num(120)>>)
LongDuration == Td("mat-column-Duration", <<Num(1), Num(30), Num(20)>>)
ShortDuration == Td("mat-column-Duration", <<Num(0), Num(45)>>)
BadDuration == Td("mat-column-Duration", <<Word("n/a")>>)
Win == Td("mat-column-Winloss", <<Dollar(1234)>>)
Loss == Td("mat-column-Winloss", <<Dollar(-5007)>>)
BadWinloss == Td("mat-column-Winloss", <<Word("pending")>>)
OtherColumn == Td("mat-column-Action", <<Word("details")>>)
PlainTd == [Hands EXCEPT !.matcell = FALSE]

\* The rows a document is made of: each kind of row the code distinguishes
RowKinds ==
    { Tr(<<GoodStart, GoodStakes, NlhTable, Hands, LongDuration, Win>>),
      Tr(<<LeapStart, HighStakes, PloTable, ShortDuration, Loss>>),
      Tr(<<BadStart, GoodStakes, Win>>),
      Tr(<<OtherColumn, PlainTd>>),
      Tr(<<NoSpanStart>>),
      Tr(<<BadDuration>>),
      Tr(<<Hands, BadDuration>>),
      Tr(<<Hands, Loss>>),
      Tr(<<NoSlashStakes, Win>>),
      Tr(<<WordStakes, Hands>>),
      Tr(<<GoodStakes, BadWinloss>>),
      [matrow |-> FALSE, cells |-> <<GoodStakes, Hands, Win>>] }

Documents == UNION { [1..n -> RowKinds] : n \in 0..MaxRows }

\* The arguments convert is called with
Years == {NoYear, 2023, 2024}
NoBuyIn == [given |-> FALSE, amt |-> 0]
BuyIn(a) == [given |-> TRUE, amt |-> a]
BuyIns == {NoBuyIn, BuyIn(0), BuyIn(5000)}

\* The output file before the run: absent, or left by an earlier run
NoFile == [exists |-> FALSE, lines |-> << >>]
OldFile == [exists |-> TRUE, lines |-> << <<"Date">> >>]

(***************************************************************************)
(* convert_pokercraft_to_bink, one row.                                    *)
(***************************************************************************)
\* soup.find_all("tr", {"mat-row": True}) and row.find_all("td", {"mat-cell": True})
IsMatRow(tr) == tr.matrow
IsMatCell(td) == td.matcell
SelectRows(doc) == SelectSeq(doc, IsMatRow)
SelectCells(row) == SelectSeq(row.cells, IsMatCell)

\* The body of `for cell in cells` for one cell: the session after it, or the exception
ScanCell(cell, session, yr) ==
    CASE cell.col = "mat-column-SessionStart" ->
            IF cell.span
            THEN LET r == parse_date(cell.txt, yr)
                 IN  IF r.exc # "none" THEN r ELSE Ok(Put(session, "Date", r.val))
            ELSE Ok(session)
      [] cell.col = "mat-column-Stakes" ->
            Ok(Put(session, "Stakes", parse_stakes(cell.txt)))
      [] cell.col = "mat-column-Table" ->
            Ok(Put(Put(session, "Table", cell.txt), "Game Type", parse_game_type(cell.txt)))
      [] cell.col = "mat-column-Hands" ->
            Ok(Put(session, "Hands", cell.txt))
      [] cell.col = "mat-column-Duration" ->
            LET r == parse_duration(cell.txt)
            IN  IF r.exc # "none" THEN r ELSE Ok(Put(session, "Duration", r.val))
      [] cell.col = "mat-column-Winloss" ->
            LET r == parse_winloss(cell.txt)
            IN  IF r.exc # "none" THEN r ELSE Ok(Put(session, "Winloss", r.val))
      [] OTHER -> Ok(session)

\* The loop over the cells of a row, from cell i on
RECURSIVE ScanCells(_, _, _, _)
ScanCells(cells, i, session, yr) ==
    IF i > Len(cells) THEN Ok(session)
    ELSE LET r == ScanCell(cells[i], session, yr)
         IN  IF r.exc # "none" THEN r ELSE ScanCells(cells, i + 1, r.val, yr)

\* `if default_buy_in:` is Python truthiness: None and 0 both fail it
BuyinProvided(dbi) == dbi.given /\ dbi.amt # 0

\* Cashout without the win/loss
CashoutIgnoringWinloss(buyin, session) == Round2(buyin)

\* session["Cashout"] = round(buyin + session.get("Winloss", 0), 2)
Cashout(buyin, session) == Round2(buyin + Get(session, "Winloss", 0))

\* `if session:` always taken
AnySession(session) == TRUE

\* `if session:`: a dict is true when it has a key
NonEmpty(session) == DOMAIN session # {}

\* The body of `for idx, row in enumerate(rows)`: [exc, val], val the sequence of
\* sessions the row appends (empty or one record)
ScanOneRow(row, yr, dbi) ==
    LET sc == ScanCells(SelectCells(row), 1, EmptyDict, yr)
    IN  IF sc.exc # "none" THEN sc
        ELSE IF ~NonEmpty(sc.val) THEN Ok(<< >>)
        ELSE LET b == IF BuyinProvided(dbi) THEN Ok(dbi.amt)
                      ELSE estimate_buyin_from_stakes(Get(sc.val, "Stakes", << >>))
             IN  IF b.exc # "none" THEN b
                 ELSE Ok(<< Put(Put(sc.val, "Buyin", b.val),
                                "Cashout", Cashout(b.val, sc.val)) >>)

(***************************************************************************)
(* convert_pokercraft_to_bink, the CSV.                                    *)
(***************************************************************************)
fieldnames ==
    << "Date", "Duration", "Buyin", "Cashout", "Stakes", "Cash/Tourney", "Live/online",
       "Location", "Game Type", "Limit Type", "Expenses", "Bankroll",
       "Action Sold Percentage", "Notes" >>

\* location and bankroll of every call of the model: the defaults of the signature
Location == "Natural8"
Bankroll == "Natural8"

\* The value of one column of the row dict built for a session
CsvValue(f, session) ==
    LET table == Get(session, "Table", << >>)
        hands == Get(session, "Hands", << >>)
    IN  CASE f = "Date" -> Get(session, "Date", << >>)
          [] f = "Duration" -> Get(session, "Duration", 0)
          [] f = "Buyin" -> Get(session, "Buyin", 0)
          [] f = "Cashout" -> Get(session, "Cashout", 0)
          [] f = "Stakes" -> Get(session, "Stakes", << >>)
          [] f = "Cash/Tourney" -> "Cash"
          [] f = "Live/online" -> "Online"
          [] f = "Location" -> Location
          [] f = "Game Type" -> Get(session, "Game Type", "Texas Hold'em")
          [] f = "Limit Type" -> "No Limit"
          [] f = "Expenses" -> 0
          [] f = "Bankroll" -> Bankroll
          [] f = "Action Sold Percentage" -> 0
          [] f = "Notes" -> IF table # << >> /\ hands # << >>
                            THEN <<table, hands>> ELSE << >>

\* writer.writerow(row): the values in the order of fieldnames
CsvLine(session) == [i \in 1..Len(fieldnames) |-> CsvValue(fieldnames[i], session)]

\* the write phase entered as soon as one row has been scanned
ScanStarted(i, rs) == i >= 1

\* the for loop over rows has ended
ScanComplete(i, rs) == i = Len(rs)

\* `if not sessions` never taken
AlwaysFound(acc) == TRUE

\* `if not sessions: return []` is not taken
SessionsFound(acc) == acc # << >>

\* the generic handler without its sys.exit(1)
ExitStatusLenient(e) == IF e = "FileNotFoundError" THEN 1 ELSE 0

\* the exit status of the __main__ block: sys.exit(1) in both handlers, 0 otherwise
ExitStatusOf(e) == IF e = "none" THEN 0 ELSE 1

\* the except clause that catches exception e
HandlerOf(e) ==
    IF e = "none" THEN "none"
    ELSE IF e = "FileNotFoundError" THEN "FileNotFoundError" ELSE "Exception"

NotExited == -1

\* CONFIG of the __main__ block
DriverConfig == [year |-> 2024, default_buy_in |-> NoBuyIn]

(***************************************************************************)
(* Actions of the converter.                                               *)
(***************************************************************************)
\* open(html_file), BeautifulSoup, find_all, `if not rows`
ReadHtml ==
    /\ prog = "convert"
    /\ pc = "start"
    /\ IF ~html_file.exists
       THEN /\ exc' = "FileNotFoundError"
            /\ pc' = "raised"
            /\ UNCHANGED <<rows, result>>
       ELSE /\ rows' = SelectRows(html_file.doc)
            /\ IF rows' = << >>
               THEN pc' = "returned" /\ result' = << >>
               ELSE pc' = "scan" /\ UNCHANGED result
            /\ UNCHANGED exc
    /\ UNCHANGED <<prog, caller, year, default_buy_in, html_file, csvBefore, csvFile,
                   csvOpened, idx, sessions, written, handler, exitStatus, demoVars>>

\* one iteration of `for idx, row in enumerate(rows)`
ScanRow ==
    /\ prog = "convert"
    /\ pc = "scan"
    /\ idx < Len(rows)
    /\ LET r == ScanOneRow(rows[idx + 1], year, default_buy_in)
       IN  IF r.exc # "none"
           THEN /\ exc' = r.exc
                /\ pc' = "raised"
                /\ UNCHANGED <<idx, sessions>>
           ELSE /\ sessions' = sessions \o r.val
                /\ idx' = idx + 1
                /\ UNCHANGED <<exc, pc>>
    /\ UNCHANGED <<prog, caller, year, default_buy_in, html_file, csvBefore, csvFile,
                   csvOpened, rows, written, result, handler, exitStatus, demoVars>>

\* after the loop: `if not sessions: return []`, else open(output_csv, "w") and writeheader
FinishScan ==
    /\ prog = "convert"
    /\ pc = "scan"
    /\ ScanComplete(idx, rows)
    /\ IF ~SessionsFound(sessions)
       THEN /\ pc' = "returned"
            /\ result' = << >>
            /\ UNCHANGED <<csvFile, csvOpened>>
       ELSE /\ pc' = "write"
            /\ csvOpened' = TRUE
            /\ csvFile' = [exists |-> TRUE, lines |-> <<fieldnames>>]
            /\ UNCHANGED result
    /\ UNCHANGED <<prog, caller, year, default_buy_in, html_file, csvBefore, rows, idx,
                   sessions, written, exc, handler, exitStatus, demoVars>>

\* one iteration of `for session in sessions`: writer.writerow(row)
WriteRow ==
    /\ prog = "convert"
    /\ pc = "write"
    /\ written < Len(sessions)
    /\ csvFile' = [csvFile EXCEPT !.lines = Append(@, CsvLine(sessions[written + 1]))]
    /\ written' = written + 1
    /\ UNCHANGED <<prog, caller, year, default_buy_in, html_file, csvBefore, csvOpened,
                   pc, rows, idx, sessions, result, exc, handler, exitStatus, demoVars>>

\* the file is closed, the count printed, `return sessions`
ReturnSessions ==
    /\ prog = "convert"
    /\ pc = "write"
    /\ written = Len(sessions)
    /\ result' = sessions
    /\ pc' = "returned"
    /\ UNCHANGED <<prog, caller, year, default_buy_in, html_file, csvBefore, csvFile,
                   csvOpened, rows, idx, sessions, written, exc, handler, exitStatus,
                   demoVars>>

\* the try/except of the __main__ block around convert, and the end of the process
DriverExit ==
    /\ prog = "convert"
    /\ caller = "driver"
    /\ pc \in {"returned", "raised"}
    /\ handler' = HandlerOf(exc)
    /\ exitStatus' = ExitStatusOf(exc)
    /\ pc' = "exited"
    /\ UNCHANGED <<prog, caller, year, default_buy_in, html_file, csvBefore, csvFile,
                   csvOpened, rows, idx, sessions, written, result, exc, demoVars>>

(***************************************************************************)
(* The asyncio demos.  A coroutine is a sequence of statements; a task     *)
(* runs from where it was resumed to its next suspension without any       *)
(* other task running in between (one thread, cooperative scheduling).     *)
(***************************************************************************)
Tasks == {"main", "A", "B"}
Basket(t) == IF t = "A" THEN "Basket A" ELSE "Basket B"

SleepDelay == 5

Stmt(op, msg, delay, targets) ==
    [op |-> op, msg |-> msg, delay |-> delay, targets |-> targets]

\* wash with the delay moved between its first two log lines
WashCodeEarlySleep ==
    << Stmt("log", "Put the coin", 0, << >>),
       Stmt("sleep", "", SleepDelay, << >>),
       Stmt("log", "Start washing...", 0, << >>),
       Stmt("log", "Finished washing", 0, << >>),
       Stmt("return", "", 0, << >>) >>

\* async def wash(basket), the same in example-2.py and example-3.py
WashCode ==
    << Stmt("log", "Put the coin", 0, << >>),
       Stmt("log", "Start washing...", 0, << >>),
       Stmt("sleep", "", SleepDelay, << >>),
       Stmt("log", "Finished washing", 0, << >>),
       Stmt("return", "", 0, << >>) >>

\* example-2.py main: await asyncio.gather(wash('Basket A'), wash('Basket B')).
\* The call of gather wraps both coroutines in scheduled tasks, then main awaits.
GatherMain ==
    << Stmt("create_task", "", 0, <<"A", "B">>),
       Stmt("await", "", 0, <<"A", "B">>),
       Stmt("return", "", 0, << >>) >>

\* example-3.py main with the handle awaited before it is logged
HandleMainAwaitFirst ==
    << Stmt("coro", "", 0, <<"A">>),
       Stmt("log", "coro", 0, << >>),
       Stmt("log", "type(coro)", 0, << >>),
       Stmt("create_task", "", 0, <<"A">>),
       Stmt("await", "", 0, <<"A">>),
       Stmt("log", "Task", 0, << >>),
       Stmt("log", "Task Type", 0, << >>),
       Stmt("log", "result", 0, << >>),
       Stmt("return", "", 0, << >>) >>

\* example-3.py main
HandleMain ==
    << Stmt("coro", "", 0, <<"A">>),
       Stmt("log", "coro", 0, << >>),
       Stmt("log", "type(coro)", 0, << >>),
       Stmt("create_task", "", 0, <<"A">>),
       Stmt("log", "Task", 0, << >>),
       Stmt("log", "Task Type", 0, << >>),
       Stmt("await", "", 0, <<"A">>),
       Stmt("log", "result", 0, << >>),
       Stmt("return", "", 0, << >>) >>

Code(t) ==
    IF t = "main" THEN (IF prog = "example-2" THEN GatherMain ELSE HandleMain)
    ELSE WashCode

\* return f"{basket} is completed!"; main returns None
ReturnValue(t) == IF t = "main" THEN << >> ELSE <<Basket(t), " is completed!">>

\* what a log statement of task t prints
LogLine(t, stmt) ==
    IF t # "main" THEN [who |-> Basket(t), msg |-> stmt.msg, val |-> << >>]
    ELSE [who |-> "main", msg |-> stmt.msg,
          val |-> CASE stmt.msg = "coro" -> <<"coroutine object", "wash">>
                    [] stmt.msg = "type(coro)" -> <<"class", "coroutine">>
                    [] stmt.msg = "Task" -> <<"Task", "pending">>
                    [] stmt.msg = "Task Type" -> <<"class", "Task">>
                    [] OTHER -> awaited]

SetMax(S) == CHOOSE x \in S : \A y \in S : y <= x
SetMin(S) == CHOOSE x \in S : \A y \in S : x <= y

\* a delay that starts only when every pending delay has ended (a blocking sleep)
SerialDeadline(now, delay, pending) ==
    SetMax({now} \cup {h.when : h \in pending}) + delay

\* await asyncio.sleep(delay): the loop's call_later(delay, ...) fires at now + delay
SleepDeadline(now, delay, pending) == now + delay

\* the orders in which the handles of S, all due at the same time, can run
Orders(S) == { q \in [1..Cardinality(S) -> S] : \A i, j \in DOMAIN q : i # j => q[i] # q[j] }

Range(q) == { q[i] : i \in DOMAIN q }

\* asyncio.run(main()) after start = time.time(): main becomes the loop's first task
AsyncioRun ==
    /\ prog \in {"example-2", "example-3"}
    /\ script = "start"
    /\ startTime' = clock
    /\ tstate' = [tstate EXCEPT !["main"] = "scheduled"]
    /\ tpc' = [tpc EXCEPT !["main"] = 1]
    /\ ready' = <<"main">>
    /\ script' = "running"
    /\ UNCHANGED <<prog, convVars, clock, timers, running, waitingOn, tresult, awaited,
                   log, endTime>>

\* the loop runs the next ready callback
LoopPick ==
    /\ script = "running"
    /\ running = "none"
    /\ ready # << >>
    /\ running' = Head(ready)
    /\ ready' = Tail(ready)
    /\ tstate' = [tstate EXCEPT ![Head(ready)] = "running"]
    /\ UNCHANGED <<prog, convVars, clock, timers, tpc, waitingOn, tresult, awaited, log,
                   script, startTime, endTime>>

\* the running task executes its next statement
Step ==
    /\ script = "running"
    /\ running # "none"
    /\ LET t == running
           stmt == Code(t)[tpc[t]]
           AllDone(ts) == \A u \in Range(ts) : tstate[u] = "done"
       IN  CASE stmt.op = "log" ->
                   /\ log' = Append(log, LogLine(t, stmt))
                   /\ tpc' = [tpc EXCEPT ![t] = @ + 1]
                   /\ UNCHANGED <<ready, timers, running, tstate, waitingOn, tresult, awaited>>
             [] stmt.op = "sleep" ->
                   /\ timers' = timers \cup
                          {[task |-> t, when |-> SleepDeadline(clock, stmt.delay, timers)]}
                   /\ tstate' = [tstate EXCEPT ![t] = "sleeping"]
                   /\ tpc' = [tpc EXCEPT ![t] = @ + 1]
                   /\ running' = "none"
                   /\ UNCHANGED <<ready, waitingOn, tresult, awaited, log>>
             [] stmt.op = "coro" ->
                   /\ tstate' = [u \in Tasks |->
                                   IF u \in Range(stmt.targets) THEN "coroutine" ELSE tstate[u]]
                   /\ tpc' = [u \in Tasks |->
                                IF u \in Range(stmt.targets) THEN 1
                                ELSE IF u = t THEN tpc[u] + 1 ELSE tpc[u]]
                   /\ UNCHANGED <<ready, timers, running, waitingOn, tresult, awaited, log>>
             [] stmt.op = "create_task" ->
                   /\ tstate' = [u \in Tasks |->
                                   IF u \in Range(stmt.targets) THEN "scheduled" ELSE tstate[u]]
                   /\ tpc' = [u \in Tasks |->
                                IF u \in Range(stmt.targets) THEN 1
                                ELSE IF u = t THEN tpc[u] + 1 ELSE tpc[u]]
                   /\ ready' = ready \o stmt.targets
                   /\ UNCHANGED <<timers, running, waitingOn, tresult, awaited, log>>
             [] stmt.op = "await" ->
                   IF AllDone(stmt.targets)
                   THEN /\ awaited' = tresult[stmt.targets[1]]
                        /\ tpc' = [tpc EXCEPT ![t] = @ + 1]
                        /\ UNCHANGED <<ready, timers, running, tstate, waitingOn, tresult, log>>
                   ELSE /\ tstate' = [tstate EXCEPT ![t] = "waiting"]
                        /\ waitingOn' = [waitingOn EXCEPT ![t] = Range(stmt.targets)]
                        /\ running' = "none"
                        /\ UNCHANGED <<ready, timers, tpc, tresult, awaited, log>>
             [] stmt.op = "return" ->
                   LET done == [tstate EXCEPT ![t] = "done"]
                       woken == { w \in Tasks : /\ tstate[w] = "waiting"
                                                /\ t \in waitingOn[w]
                                                /\ \A u \in waitingOn[w] : done[u] = "done" }
                   IN  /\ tresult' = [tresult EXCEPT ![t] = ReturnValue(t)]
                       /\ tstate' = [u \in Tasks |-> IF u \in woken THEN "scheduled" ELSE done[u]]
                       /\ waitingOn' = [u \in Tasks |-> IF u \in woken THEN {} ELSE waitingOn[u]]
                       /\ \E q \in Orders(woken) : ready' = ready \o q
                       /\ running' = "none"
                       /\ UNCHANGED <<timers, tpc, awaited, log>>
    /\ UNCHANGED <<prog, convVars, clock, script, startTime, endTime>>

\* nothing is ready: the loop blocks until the earliest timer, then runs what is due
AdvanceClock ==
    /\ script = "running"
    /\ running = "none"
    /\ ready = << >>
    /\ timers # {}
    /\ LET next == SetMin({h.when : h \in timers})
           due == {h \in timers : h.when = next}
       IN  /\ clock' = IF next > clock THEN next ELSE clock
           /\ timers' = timers \ due
           /\ tstate' = [u \in Tasks |->
                           IF u \in {h.task : h \in due} THEN "scheduled" ELSE tstate[u]]
           /\ \E q \in Orders({h.task : h \in due}) : ready' = q
    /\ UNCHANGED <<prog, convVars, running, tpc, waitingOn, tresult, awaited, log, script,
                   startTime, endTime>>

\* asyncio.run returns once main is done; end = time.time(); the total is logged
ScriptEnd ==
    /\ script = "running"
    /\ running = "none"
    /\ tstate["main"] = "done"
    /\ endTime' = clock
    /\ log' = Append(log, [who |-> "script", msg |-> "Total time", val |-> << >>])
    /\ script' = "done"
    /\ UNCHANGED <<prog, convVars, clock, ready, timers, running, tstate, tpc, waitingOn,
                   tresult, awaited, startTime>>

(***************************************************************************)
(* The specification.                                                      *)
(***************************************************************************)
Programs == {"convert", "example-2", "example-3"}
StartTimes == {0, 7}
MissingFile == [exists |-> FALSE, doc |-> << >>]

Init ==
    /\ prog \in Programs
    /\ IF prog = "convert"
       THEN /\ caller \in {"driver", "library"}
            /\ IF caller = "driver"
               THEN year = DriverConfig.year /\ default_buy_in = DriverConfig.default_buy_in
               ELSE year \in Years /\ default_buy_in \in BuyIns
            /\ html_file \in {MissingFile} \cup {[exists |-> TRUE, doc |-> d] : d \in Documents}
            /\ csvBefore \in {NoFile, OldFile}
            /\ pc = "start"
            /\ clock = 0
            /\ script = "idle"
       ELSE /\ caller = "none"
            /\ year = NoYear
            /\ default_buy_in = NoBuyIn
            /\ html_file = MissingFile
            /\ csvBefore = NoFile
            /\ pc = "idle"
            /\ clock \in StartTimes
            /\ script = "start"
    /\ csvFile = csvBefore
    /\ csvOpened = FALSE
    /\ rows = << >>
    /\ idx = 0
    /\ sessions = << >>
    /\ written = 0
    /\ result = << >>
    /\ exc = "none"
    /\ handler = "none"
    /\ exitStatus = NotExited
    /\ ready = << >>
    /\ timers = {}
    /\ running = "none"
    /\ tstate = [t \in Tasks |-> "absent"]
    /\ tpc = [t \in Tasks |-> 0]
    /\ waitingOn = [t \in Tasks |-> {}]
    /\ tresult = [t \in Tasks |-> << >>]
    /\ awaited = << >>
    /\ log = << >>
    /\ startTime = 0
    /\ endTime = 0

Next ==
    \/ ReadHtml
    \/ ScanRow
    \/ FinishScan
    \/ WriteRow
    \/ ReturnSessions
    \/ DriverExit
    \/ AsyncioRun
    \/ LoopPick
    \/ Step
    \/ AdvanceClock
    \/ ScriptEnd

Spec == Init /\ [][Next]_vars

(***************************************************************************)
(* Vocabulary of the properties, stated on the input document and not on   *)
(* the scanning code.                                                      *)
(***************************************************************************)
\* convert has returned / has raised
Returned == prog = "convert" /\ exc = "none" /\ pc \in {"returned", "exited"}
Finished == prog = "convert" /\ pc \in {"returned", "raised", "exited"}

\* the session fields a selected cell stands for
ColumnFields(cell) ==
    CASE cell.col = "mat-column-SessionStart" -> IF cell.span THEN {"Date"} ELSE {}
      [] cell.col = "mat-column-Stakes" -> {"Stakes"}
      [] cell.col = "mat-column-Table" -> {"Table", "Game Type"}
      [] cell.col = "mat-column-Hands" -> {"Hands"}
      [] cell.col = "mat-column-Duration" -> {"Duration"}
      [] cell.col = "mat-column-Winloss" -> {"Winloss"}
      [] OTHER -> {}

\* the text of the cell cannot be parsed by the parser of its column
MalformedNumber(cell) ==
    \/ cell.col = "mat-column-Duration" /\ parse_duration(cell.txt).exc # "none"
    \/ cell.col = "mat-column-Winloss" /\ parse_winloss(cell.txt).exc # "none"
MalformedStakes(cell) ==
    cell.col = "mat-column-Stakes" /\ estimate_buyin_from_stakes(parse_stakes(cell.txt)).exc # "none"
UnparseableDate(cell, yr) ==
    /\ cell.col = "mat-column-SessionStart"
    /\ cell.span
    /\ strptime(cell.txt, IF yr = NoYear THEN CurrentYear ELSE yr).exc # "none"

CellsOf(row) == { row.cells[i] : i \in { j \in DOMAIN row.cells : row.cells[j].matcell } }

\* the fields a row yields when all of its cells are read
FieldsOf(row) == UNION { ColumnFields(c) : c \in CellsOf(row) }

\* the row yields a field before any of its cells fails to parse
YieldsBeforeFailure(row) ==
    \E i \in DOMAIN row.cells :
        /\ row.cells[i].matcell
        /\ ColumnFields(row.cells[i]) # {}
        /\ \A j \in 1..i : ~(row.cells[j].matcell /\ MalformedNumber(row.cells[j]))

\* something other than its date stops the row from becoming a record
RowDefect(row, dbi) ==
    \/ \E c \in CellsOf(row) : MalformedNumber(c)
    \/ /\ FieldsOf(row) # {}
       /\ ~(dbi.given /\ dbi.amt # 0)
       /\ \/ "Stakes" \notin FieldsOf(row)
          \/ \E c \in CellsOf(row) : MalformedStakes(c)

HasFields(row) == FieldsOf(row) # {}
HasBadDate(row) == \E c \in CellsOf(row) : UnparseableDate(c, year)

\* the rows scanned so far that yielded a field, in document order
Contributing == SelectSeq(SubSeq(rows, 1, idx), HasFields)

\* no selected row of the document yields a field
NothingYielded ==
    /\ prog = "convert"
    /\ html_file.exists
    /\ \A i \in DOMAIN html_file.doc :
           html_file.doc[i].matrow => ~YieldsBeforeFailure(html_file.doc[i])

TheWinloss(session) == Get(session, "Winloss", 0)

MsgsOf(who) == SelectSeq(log, LAMBDA e : e.who = who)
Positions(msg) == { i \in DOMAIN log : log[i].msg = msg }
IsPrefix(p, q) == Len(p) <= Len(q) /\ \A i \in DOMAIN p : p[i] = q[i]

(***************************************************************************)
(* Properties of the converter.                                            *)
(***************************************************************************)

\* C1 (as stated): when no mat-row row is selected, or no selected row yields a
\* field, a finished convert has returned the empty list and the output file was
\* never opened, created or modified.
C1_ReturnsEmptyAndNoFile ==
    (NothingYielded /\ Finished) =>
        /\ Returned
        /\ result = << >>
        /\ ~csvOpened
        /\ csvFile = csvBefore

\* C1 (amended): the output file is opened only with a session in the accumulator;
\* when no selected row yields a field the file is never opened, created or
\* modified, and convert returns the empty list unless reading a row raised.
C1_NoSessionNoFile ==
    /\ csvOpened => sessions # << >>
    /\ NothingYielded =>
          /\ ~csvOpened
          /\ csvFile = csvBefore
          /\ sessions = << >>
          /\ (Finished /\ exc = "none") => (Returned /\ result = << >>)

\* rows were selected, none yielded a field, convert returned [] and an output file
\* left by an earlier run is as it was
C1_Witness ==
    /\ NothingYielded
    /\ Returned
    /\ Len(rows) = 2
    /\ result = << >>
    /\ csvBefore = OldFile
    /\ csvFile = OldFile

\* C2: every record of the accumulator and of the returned list has
\* Cashout = round(Buyin + Winloss, 2), a missing Winloss counting as 0, and every
\* CSV data row carries the Buyin and the Cashout of its record.
C2_CashoutInvariant ==
    /\ \A i \in DOMAIN sessions :
           sessions[i]["Cashout"] = Round2(sessions[i]["Buyin"] + TheWinloss(sessions[i]))
    /\ \A i \in DOMAIN result :
           result[i]["Cashout"] = Round2(result[i]["Buyin"] + TheWinloss(result[i]))
    /\ csvOpened =>
           \A i \in 2..Len(csvFile.lines) :
               /\ csvFile.lines[i][3] = sessions[i - 1]["Buyin"]
               /\ csvFile.lines[i][4] = Round2(csvFile.lines[i][3] + TheWinloss(sessions[i - 1]))

\* two records were exported, one with a win that rounding changes and one without Winloss
C2_Witness ==
    /\ Returned
    /\ Len(result) = 2
    /\ Len(csvFile.lines) = 3
    /\ "Winloss" \in DOMAIN result[1]
    /\ result[1]["Cashout"] # result[1]["Buyin"] + result[1]["Winloss"]
    /\ "Winloss" \notin DOMAIN result[2]

\* C3 (as stated): Buyin is default_buy_in whenever a value is provided, zero
\* included, and 100 x the big blind of the stakes only when none is provided.
C3_BuyinIsDefaultWhenProvided ==
    \A i \in DOMAIN sessions :
        IF default_buy_in.given
        THEN sessions[i]["Buyin"] = default_buy_in.amt
        ELSE sessions[i]["Buyin"] = Round2(100 * sessions[i]["Stakes"][2].val)

\* C6: a date that cannot be parsed is never what aborts the run: a raised run was
\* stopped by another defect of the row being read, every record of a row with an
\* unparseable date has Date = "", and a returned run has read every row and
\* exported every record.
C6_BadDateDoesNotAbort ==
    /\ (prog = "convert" /\ exc \notin {"none", "FileNotFoundError"}) =>
           RowDefect(rows[idx + 1], default_buy_in)
    /\ (prog = "convert" /\ Len(sessions) = Len(Contributing)) =>
           \A k \in DOMAIN sessions :
               HasBadDate(Contributing[k]) =>
                   "Date" \in DOMAIN sessions[k] /\ sessions[k]["Date"] = << >>
    /\ (Returned /\ rows # << >>) =>
           /\ idx = Len(rows)
           /\ Len(sessions) = Len(Contributing)
           /\ sessions # << >> => Len(csvFile.lines) = 1 + Len(sessions)

\* the first row has an unparseable date; its record and the record of the row after
\* it were both exported
C6_Witness ==
    /\ Returned
    /\ Len(rows) = 2
    /\ HasBadDate(rows[1])
    /\ Len(result) = 2
    /\ result[1]["Date"] = << >>
    /\ Len(csvFile.lines) = 3
    /\ csvFile.lines[2][1] = << >>

\* C7: the driver exits with 0 exactly when convert returned and with 1 when it
\* raised; a missing input file is handled by the FileNotFoundError clause, a
\* malformed stakes or duration text in a selected row by the generic clause.
C7_ExitStatus ==
    (prog = "convert" /\ caller = "driver") =>
        /\ pc # "exited" => exitStatus = NotExited /\ handler = "none"
        /\ pc = "exited" =>
              /\ exitStatus = (IF exc = "none" THEN 0 ELSE 1)
              /\ ~html_file.exists => handler = "FileNotFoundError" /\ exitStatus = 1
              /\ (\E i \in DOMAIN rows : \E c \in CellsOf(rows[i]) :
                      \/ MalformedStakes(c)
                      \/ c.col = "mat-column-Duration" /\ MalformedNumber(c))
                 => handler = "Exception" /\ exitStatus = 1
        /\ Finished /\ exc = "none" => result = sessions

\* the second row has stakes without a slash; the driver ended in the generic clause
C7_Witness ==
    /\ prog = "convert"
    /\ caller = "driver"
    /\ pc = "exited"
    /\ Len(rows) = 2
    /\ idx = 1
    /\ \E c \in CellsOf(rows[2]) : MalformedStakes(c)
    /\ exc = "IndexError"
    /\ handler = "Exception"
    /\ exitStatus = 1

C10_AllOrNothing ==
    /\ csvOpened => (idx = Len(rows) /\ exc = "none")
    /\ exc # "none" => (~csvOpened /\ csvFile = csvBefore)

\* the first row produced a record, the second raised, the earlier file is untouched
C10_Witness ==
    /\ prog = "convert"
    /\ pc = "raised"
    /\ Len(sessions) = 1
    /\ idx = 1
    /\ exc \in {"ValueError", "IndexError"}
    /\ ~csvOpened
    /\ csvBefore = OldFile
    /\ csvFile = OldFile

(***************************************************************************)
(* Properties of the asyncio demos.                                        *)
(***************************************************************************)
WashLines == { i \in DOMAIN log : log[i].who \in {"Basket A", "Basket B"} }

\* C4: in the fan-out-and-join demo main is done only when both wash tasks are done,
\* every delay ends one delay period after the start of the run, and the elapsed
\* time logged at the end is that one period, not two.
C4_JoinAfterOneDelay ==
    prog = "example-2" =>
        /\ tstate["main"] = "done" =>
               /\ tstate["A"] = "done" /\ tresult["A"] = <<"Basket A", " is completed!">>
               /\ tstate["B"] = "done" /\ tresult["B"] = <<"Basket B", " is completed!">>
        /\ \A h \in timers : h.when = startTime + SleepDelay
        /\ script = "done" =>
               /\ tstate["main"] = "done"
               /\ endTime - startTime = SleepDelay
               /\ endTime - startTime # 2 * SleepDelay

\* the run that started at time 7 ended at time 12 with both baskets finished
C4_Witness ==
    /\ prog = "example-2"
    /\ script = "done"
    /\ startTime = 7
    /\ endTime = 12
    /\ Cardinality(Positions("Finished washing")) = 2

\* C9: in the fan-out-and-join demo a "Put the coin" line is directly followed by the
\* "Start washing" line of the same basket, and no "Finished washing" line is
\* emitted before both "Start washing" lines.
C9_YieldsOnlyAtDelay ==
    prog = "example-2" =>
        /\ \A i \in Positions("Put the coin") :
               i < Len(log) =>
                   log[i + 1].who = log[i].who /\ log[i + 1].msg = "Start washing..."
        /\ \A i \in Positions("Start washing...") :
               i > 1 /\ log[i - 1].who = log[i].who /\ log[i - 1].msg = "Put the coin"
        /\ \A i \in Positions("Finished washing") :
               /\ Cardinality({ j \in Positions("Start washing...") : j < i }) = 2
               /\ \A j \in Positions("Start washing...") : j < i

\* the run ended with the lines of B's finish ahead of A's
C9_Witness ==
    /\ prog = "example-2"
    /\ script = "done"
    /\ Len(log) = 7
    /\ log[5].who = "Basket B" /\ log[5].msg = "Finished washing"
    /\ log[6].who = "Basket A" /\ log[6].msg = "Finished washing"

\* C5: in the explicit-handle demo the coroutine is logged, then its type, then the
\* task handle and its type, all before any line of wash; the wash lines of the one
\* task come next, complete and in order; the value awaited and logged last is
\* "Basket A is completed!"; there is never a second wash task.
C5_HandleDemoOrder ==
    prog = "example-3" =>
        /\ IsPrefix([i \in DOMAIN MsgsOf("main") |-> MsgsOf("main")[i].msg],
                    <<"coro", "type(coro)", "Task", "Task Type", "result">>)
        /\ tstate["A"] \notin {"absent", "coroutine"} => Positions("type(coro)") # {}
        /\ Positions("coro") # {} /\ Positions("Task") = {} => running = "main"
        /\ \A i \in WashLines :
               /\ log[i].who = "Basket A"
               /\ \E j \in Positions("Task Type") : j < i
               /\ \A j \in Positions("result") : i < j
        /\ IsPrefix([i \in DOMAIN MsgsOf("Basket A") |-> MsgsOf("Basket A")[i].msg],
                    <<"Put the coin", "Start washing...", "Finished washing">>)
        /\ \A j \in Positions("result") :
               /\ log[j].val = <<"Basket A", " is completed!">>
               /\ Cardinality(WashLines) = 3
               /\ tstate["A"] = "done"
        /\ awaited # << >> => awaited = <<"Basket A", " is completed!">>
        /\ tstate["B"] = "absent"
        /\ tstate["A"] = "coroutine" => WashLines = {}

\* the demo ran to its end: five lines of main around the three lines of wash
C5_Witness ==
    /\ prog = "example-3"
    /\ script = "done"
    /\ Len(log) = 9
    /\ log[8].msg = "result"
    /\ log[8].val = <<"Basket A", " is completed!">>
    /\ log[4].msg = "Task Type"
    /\ log[5].msg = "Put the coin"

====
